---------------------------- MODULE Spec2Model ----------------------------
(***************************************************************************)
(* autobrrctl: the operator CLI of autobrr.                                *)
(*                                                                         *)
(*   db:migrate  copies a fixed list of tables from SQLite to PostgreSQL,  *)
(*               one destination transaction per table, reopened after a   *)
(*               foreign-key failure;                                      *)
(*   db:seed     executes a SQL script inside one SQLite transaction;      *)
(*   db:reset    clears a fixed list of tables inside one SQLite           *)
(*               transaction and then seeds.                               *)
(*                                                                         *)
(* The databases are the environment: what a cursor yields and how a       *)
(* statement is answered are inputs of the step that issues the call.      *)
(* An error is the sequence of words of its message, so that the           *)
(* strings.Contains tests of the code are computed, not assumed.           *)
(***************************************************************************)
EXTENDS Integers, Sequences, FiniteSets, TLC

\* Total number of rows the source database holds over all tables.
MaxSrcRows == 3

\* Number of tokens of the seed script.
MaxScriptLen == 3

\* Number of columns of a source table.
MaxColumns == 2

\* Number of external filters the form holds at most.
MaxExternal == 3

VARIABLES
    pc,          \* position of the process in main / migrate / resetDB / seedDB
    args,        \* flag.Args(): the positional arguments
    exitCode,    \* -1 while running, else the exit status of the process
    fatal,       \* which log.Fatalf ended the process (empty if none)
    stdout,      \* lines printed with fmt.Print*
    tableIdx,    \* migrate: index of the table of the current loop iteration
    srcRows,     \* migrate: rows of each source table (known once queried)
    results,     \* migrate: per table, the answer of the destination to each row read
    postgres,    \* migrate: rows committed to each destination table by the run
    pgTx,        \* migrate: the destination transaction `tx`
    sqlite,      \* reset/seed: the committed content of the SQLite store
    sqliteTx,    \* reset/seed: the transaction `tx`
    storeBefore, \* reset/seed: the committed store when the running engine began
    resetStatus, \* outcome of resetDB's transaction
    seedStatus,  \* outcome of seedDB's transaction
    resetIdx,    \* resetDB: index of the table of the current loop iteration
    resetLog,    \* resetDB: the statements executed and the answer to each
    sqlFile,     \* seedDB: the text of the script as read from the file
    sqlCommands, \* seedDB: the fragments of the script
    cmdIdx,      \* seedDB: index of the fragment of the current loop iteration
    executed,    \* seedDB: the fragments sent to the database and the answer to each
    txLog,       \* migrate: the calls made on the two databases, in order
    fsLog,       \* reset/seed: the paths given to ioutil.ReadFile and sql.Open, in order
    store0,      \* reset/seed: the content of the SQLite store when the process started
    ins,         \* migrate: the INSERT statement of one table and the row bound to it
    external     \* filter form: values.external, the list of external filters

vars == <<pc, args, exitCode, fatal, stdout, tableIdx, srcRows, results, postgres,
          pgTx, sqlite, sqliteTx, storeBefore, resetStatus, seedStatus, resetIdx,
          resetLog, sqlCommands, cmdIdx, executed, txLog, fsLog, store0, ins,
          sqlFile, external>>

migrateVars == <<tableIdx, srcRows, results, postgres, pgTx, txLog>>
cliVars == <<pc, args, exitCode, fatal, stdout, tableIdx, srcRows, results, postgres,
             pgTx, txLog, sqlite, sqliteTx, storeBefore, resetStatus, seedStatus,
             resetIdx, resetLog, sqlCommands, cmdIdx, executed, fsLog, store0, sqlFile,
             ins>>
ctlVars == <<sqlite, sqliteTx, storeBefore, resetStatus, seedStatus, resetIdx,
             resetLog, sqlCommands, cmdIdx, executed, fsLog, store0, sqlFile>>

-----------------------------------------------------------------------------
(* Helpers *)

Range(s) == { s[i] : i \in 1..Len(s) }

\* strings.Contains on messages taken as sequences of words.
Contains(s, substr) ==
    \E i \in 0..(Len(s) - Len(substr)) : SubSeq(s, i + 1, i + Len(substr)) = substr

\* flag.Arg(i): the i-th positional argument, "" when absent.
Arg(i) == IF i + 1 <= Len(args) THEN args[i + 1] ELSE ""

\* err == nil
Nil == <<>>

-----------------------------------------------------------------------------
(* migrate *)

\* A mutant of tables: filter is copied after action, which refers to it.
tablesSwapped ==
    << "users", "indexer", "irc_network", "irc_channel", "client", "action",
       "filter", "notification", "filter_indexer", "release",
       "release_action_status", "feed", "api_key" >>

\* The table list of migrate.
tables ==
    << "users", "indexer", "irc_network", "irc_channel", "client", "filter",
       "action", "notification", "filter_indexer", "release",
       "release_action_status", "feed", "api_key" >>

TableNames == Range(tables)

\* Messages of the destination driver (lib/pq) for a rejected INSERT.
ErrForeignKey ==
    << "insert", "or", "update", "on", "table", "violates", "foreign", "key", "constraint" >>
ErrUnique ==
    << "duplicate", "key", "value", "violates", "unique", "constraint" >>
ErrNotNull ==
    << "null", "value", "in", "column", "violates", "not-null", "constraint" >>
ErrConn ==
    << "connection", "refused" >>

ExecErrors == { ErrForeignKey, ErrUnique, ErrNotNull, ErrConn }

\* A mutant of IsForeignKeyViolation: no error is recoverable.
IsForeignKeyViolationNever(err) == FALSE

\* A mutant of IsForeignKeyViolation: every constraint violation is recoverable.
IsForeignKeyViolationAnyConstraint(err) == Contains(err, << "constraint" >>)

\* strings.Contains(err.Error(), "violates foreign key constraint")
IsForeignKeyViolation(err) ==
    Contains(err, << "violates", "foreign", "key", "constraint" >>)

\* A transaction: a working copy of the store it was begun on.
NoTx(store) == [open |-> FALSE, data |-> store]

\* db.Begin()
Begin(store) == [open |-> TRUE, data |-> store]

\* A mutant of Rollback: the work of the transaction is kept.
RollbackKeeps(store, tx) == tx.data

\* A mutant of Rollback: the rows committed for every table are lost.
RollbackWipes(store, tx) == [t \in DOMAIN store |-> <<>>]

\* tx.Rollback(): the committed store is what it was.
Rollback(store, tx) == store

\* A mutant of Commit: the work of the transaction is dropped.
CommitDrops(store, tx) == store

\* tx.Commit(): the working copy becomes the committed store.
Commit(store, tx) == tx.data

EmptyPg == [t \in TableNames |-> <<>>]

TotalRows(f) ==
    LET RECURSIVE Sum(_)
        Sum(i) == IF i = 0 THEN 0 ELSE f[tables[i]] + Sum(i - 1)
    IN Sum(Len(tables))

\* The source databases of the runs: the tables that may hold rows are the
\* first and the last of the list and a parent with its child.
SrcPopulated == { "users", "filter", "action", "api_key" }

\* The row counts `SELECT * FROM table` may find in such a database.
SrcRowCounts(table) ==
    IF table \in SrcPopulated THEN 0..(MaxSrcRows - TotalRows(srcRows)) ELSE {0}

\* A mutant of Fatal: the message is logged and the process goes on.
FatalLogsOnly(msg) ==
    /\ pc' = pc
    /\ exitCode' = exitCode
    /\ fatal' = msg

\* A mutant of Fatal: the message is logged and the process exits with
\* status 0.
FatalExitsZero(msg) ==
    /\ pc' = "exited"
    /\ exitCode' = 0
    /\ fatal' = msg

\* log.Fatalf: the message is logged and the process exits with status 1;
\* deferred calls do not run, an open transaction is never committed.
Fatal(msg) ==
    /\ pc' = "exited"
    /\ exitCode' = 1
    /\ fatal' = msg

\* main, case "db:migrate" (up to the call of migrate).
MainMigrate ==
    /\ pc = "main"
    /\ Arg(0) = "db:migrate"
    /\ IF Arg(1) = "" \/ Arg(2) = ""
       THEN /\ pc' = "exited"
            /\ exitCode' = 1
            /\ stdout' = Append(stdout, << "usage" >>)
            /\ UNCHANGED fatal
       ELSE \E openErr \in {"", "sqlite", "postgres"} :
              IF openErr # ""
              THEN /\ Fatal(<< "connect", openErr >>)
                   /\ UNCHANGED stdout
              ELSE /\ pc' = "migrate_table"
                   /\ UNCHANGED <<exitCode, fatal, stdout>>
    /\ UNCHANGED <<args, external, migrateVars, ctlVars, ins>>

\* One iteration of `for _, table := range tables`, up to the row loop:
\* query the source, describe its columns, begin the table's transaction.
MigrateBeginTable ==
    /\ pc = "migrate_table"
    /\ tableIdx <= Len(tables)
    /\ LET table == tables[tableIdx] IN
       \E n \in SrcRowCounts(table),
          err \in {"", "query", "column types", "begin"} :
            IF err # ""
            THEN /\ Fatal(<< err, table >>)
                 /\ txLog' = txLog \o
                       (IF err = "query"
                        THEN << << "Query failed", table >> >>
                        ELSE IF err = "column types"
                        THEN << << "Query", table >>, << "ColumnTypes failed", table >> >>
                        ELSE << << "Query", table >>, << "Begin failed", table >> >>)
                 /\ n = CHOOSE k \in SrcRowCounts(table) : TRUE
                 /\ UNCHANGED <<srcRows, pgTx>>
            ELSE /\ srcRows' = [srcRows EXCEPT ![table] = n]
                 /\ pgTx' = Begin(postgres)
                 /\ txLog' = txLog \o << << "Query", table >>, << "Begin", table >> >>
                 /\ pc' = "migrate_rows"
                 /\ UNCHANGED <<exitCode, fatal>>
    /\ UNCHANGED <<args, external, stdout, tableIdx, results, postgres, ctlVars, ins>>

\* A mutant of Insert: the row is stored twice.
InsertTwice(tx, table, row) == [tx EXCEPT !.data[table] = @ \o << row, row >>]

\* insertStmt.Exec(values...) answered without error: the row is in the
\* working copy of the transaction.
Insert(tx, table, row) == [tx EXCEPT !.data[table] = Append(@, row)]

\* One iteration of `for rows.Next()`: scan the row, prepare and execute the
\* INSERT, and handle its error.
MigrateRow ==
    /\ pc = "migrate_rows"
    /\ LET table == tables[tableIdx]
           row   == Len(results[table]) + 1
       IN
       /\ row <= srcRows[table]
       /\ \E pre \in {"", "scan", "prepare"}, err \in {Nil} \cup ExecErrors,
             beginErr \in BOOLEAN :
            IF pre # ""
            THEN /\ Fatal(<< pre, table >>)
                 /\ err = Nil /\ ~beginErr
                 /\ UNCHANGED <<results, pgTx, postgres, txLog>>
            ELSE
              /\ results' = [results EXCEPT ![table] = Append(@, err)]
              /\ IF err = Nil
                 THEN /\ ~beginErr
                      /\ pgTx' = Insert(pgTx, table, row)
                      /\ txLog' = Append(txLog, << "Exec", table >>)
                      /\ UNCHANGED <<pc, exitCode, fatal, postgres>>
                 ELSE IF IsForeignKeyViolation(err)
                 THEN /\ postgres' = Rollback(postgres, pgTx)
                      /\ IF beginErr
                         THEN /\ pgTx' = NoTx(postgres')
                              /\ txLog' = txLog \o << << "Exec", table >>,
                                                       << "Rollback", table >> >>
                              /\ Fatal(<< "begin", table >>)
                         ELSE /\ pgTx' = Begin(postgres')
                              /\ txLog' = txLog \o << << "Exec", table >>,
                                                       << "Rollback", table >>,
                                                       << "Begin", table >> >>
                              /\ UNCHANGED <<pc, exitCode, fatal>>
                 ELSE /\ ~beginErr
                      /\ txLog' = Append(txLog, << "Exec", table >>)
                      /\ Fatal(<< "insert", table >>)
                      /\ UNCHANGED <<pgTx, postgres>>
    /\ UNCHANGED <<args, external, stdout, tableIdx, srcRows, ctlVars, ins>>

\* rows.Next() returns false (the cursor is exhausted, or it failed: the code
\* does not look at rows.Err()), the transaction is committed and the
\* table's line is printed.
MigrateEndTable ==
    /\ pc = "migrate_rows"
    /\ LET table == tables[tableIdx] IN
       \E cursorErr \in BOOLEAN, commitErr \in BOOLEAN :
         /\ (Len(results[table]) = srcRows[table]) \/ cursorErr
         /\ (Len(results[table]) = srcRows[table]) => ~cursorErr
         /\ IF commitErr
            THEN /\ Fatal(<< "commit", table >>)
                 /\ txLog' = txLog \o (IF cursorErr
                                       THEN << << "Next failed", table >> >>
                                       ELSE <<>>)
                 /\ UNCHANGED <<postgres, pgTx, stdout, tableIdx>>
            ELSE /\ postgres' = Commit(postgres, pgTx)
                 /\ pgTx' = NoTx(Commit(postgres, pgTx))
                 /\ txLog' = txLog \o (IF cursorErr
                                       THEN << << "Next failed", table >> >>
                                       ELSE <<>>)
                                   \o << << "Commit", table >> >>
                 /\ stdout' = Append(stdout, << "Migrated table", table >>)
                 /\ tableIdx' = tableIdx + 1
                 /\ pc' = "migrate_table"
                 /\ UNCHANGED <<exitCode, fatal>>
    /\ UNCHANGED <<args, external, srcRows, results, ctlVars, ins>>

\* After the last table: the success message; migrate and main return.
MigrateFinish ==
    /\ pc = "migrate_table"
    /\ tableIdx > Len(tables)
    /\ stdout' = Append(stdout, << "Migration completed successfully!" >>)
    /\ pc' = "exited"
    /\ exitCode' = 0
    /\ UNCHANGED <<args, external, fatal, migrateVars, ctlVars, ins>>

-----------------------------------------------------------------------------
(* migrate: the INSERT statement of a table and the row bound to it *)

\* The pieces of text a statement is made of: a kind, a word, a number.
Ident(name) == << "ident", name, 0 >>
Comma == << ", ", "", 0 >>
InsertInto(table) == << "INSERT INTO", table, 0 >>
OpenParen == << " (", "", 0 >>
ValuesParen == << ") VALUES (", "", 0 >>
CloseParen == << ")", "", 0 >>

\* A mutant of Placeholder: the loop index is printed as it is.
PlaceholderFromZero(i) == << "$", "", i >>

\* fmt.Sprintf("$%d", i+1), i the index of the column counted from 0.
Placeholder(i) == << "$", "", i + 1 >>

\* A mutant of InsertSQL: the two lists change places.
InsertSQLSwapped(table, colNames, colPlaceholders) ==
    << InsertInto(table), OpenParen >> \o colPlaceholders \o << ValuesParen >>
        \o colNames \o << CloseParen >>

\* fmt.Sprintf("INSERT INTO %s (%s) VALUES (%s)", table, colNames, colPlaceholders)
InsertSQL(table, colNames, colPlaceholders) ==
    << InsertInto(table), OpenParen >> \o colNames \o << ValuesParen >>
        \o colPlaceholders \o << CloseParen >>

\* The names a table's columns are taken from, and the column lists
\* rows.ColumnTypes() can return: no name twice.
ColumnNames == { "id", "name", "enabled" }
ColumnLists ==
    { cols \in UNION { [1..n -> ColumnNames] : n \in 1..MaxColumns } :
        \A a, b \in 1..Len(cols) : cols[a] = cols[b] => a = b }

\* The values a cell of a source row can hold.
CellValues == { "x", "y" }

\* How the destination reads a statement: the position of the piece that
\* opens the value list, the columns named before it, the numbers of the
\* placeholders after it.
ValuesAt(stmt) == CHOOSE k \in 1..Len(stmt) : stmt[k] = ValuesParen
ColumnsOf(stmt) ==
    LET ids == SelectSeq(SubSeq(stmt, 1, ValuesAt(stmt)), LAMBDA tok : tok[1] = "ident")
    IN [k \in 1..Len(ids) |-> ids[k][2]]
PlaceholdersOf(stmt) ==
    LET phs == SelectSeq(SubSeq(stmt, ValuesAt(stmt), Len(stmt)), LAMBDA tok : tok[1] = "$")
    IN [k \in 1..Len(phs) |-> phs[k][3]]

\* insertStmt.Exec(values...): the row the destination stores, the column
\* at position k of the column list taking the argument its placeholder
\* numbers; no row if the statement is not one the destination accepts.
Stored(stmt, values) ==
    LET cols == ColumnsOf(stmt)
        phs  == PlaceholdersOf(stmt)
    IN IF /\ Len(cols) = Len(phs)
          /\ \A k \in 1..Len(phs) : phs[k] \in 1..Len(values)
          /\ \A k \in 1..Len(values) : \E j \in 1..Len(phs) : phs[j] = k
       THEN [c \in Range(cols) |->
               values[phs[CHOOSE k \in 1..Len(cols) : cols[k] = c]]]
       ELSE <<>>

\* One iteration of `for i, col := range columns`.
InsertColumn ==
    /\ pc = "insert_columns"
    /\ ins.i < Len(ins.columns)
    /\ LET i   == ins.i
           col == ins.columns[i + 1]
           sep == IF i < Len(ins.columns) - 1 THEN << Comma >> ELSE <<>>
       IN ins' = [ins EXCEPT !.colNames = @ \o << Ident(col) >> \o sep,
                             !.colPlaceholders = @ \o << Placeholder(i) >> \o sep,
                             !.i = i + 1]
    /\ UNCHANGED <<pc, args, external, exitCode, fatal, stdout, migrateVars, ctlVars>>

\* rows.Next() and rows.Scan(valuePtrs...): a buffer of len(columns) slots
\* takes the cells of the row in the order of the cursor's columns.
InsertScan ==
    /\ pc = "insert_columns"
    /\ ins.i = Len(ins.columns)
    /\ \E row \in [Range(ins.columns) -> CellValues] :
         ins' = [ins EXCEPT !.srcRow = row,
                            !.values = [k \in 1..Len(ins.columns) |-> row[ins.columns[k]]]]
    /\ pc' = "insert_exec"
    /\ UNCHANGED <<args, external, exitCode, fatal, stdout, migrateVars, ctlVars>>

\* tx.Prepare(...) and insertStmt.Exec(values...).
InsertExec ==
    /\ pc = "insert_exec"
    /\ LET stmt == InsertSQL(ins.table, ins.colNames, ins.colPlaceholders)
       IN ins' = [ins EXCEPT !.stmt = stmt, !.written = Stored(stmt, ins.values)]
    /\ pc' = "insert_done"
    /\ UNCHANGED <<args, external, exitCode, fatal, stdout, migrateVars, ctlVars>>

-----------------------------------------------------------------------------
(* The SQLite store of db:reset and db:seed *)

\* A mutant of resetTables: the list of migrate.
resetTablesCatalogOnly ==
    << "users", "indexer", "irc_network", "irc_channel", "client", "filter",
       "action", "notification", "filter_indexer", "release",
       "release_action_status", "feed", "api_key" >>

\* The table list of resetDB.
resetTables ==
    << "action", "api_key", "client", "feed", "feed_cache", "filter",
       "filter_indexer", "indexer", "irc_channel", "irc_network", "notification",
       "release", "release_action_status", "users" >>

ResetTableNames == Range(resetTables)

\* Which tables hold rows before the run.
PopulatedSets == { {}, ResetTableNames, {"feed_cache", "users"} }

\* A store: the row count of each table, and the sqlite_sequence table
\* (absent when no table was created AUTOINCREMENT). The stores of the
\* runs hold two rows in each table that holds any.
Stores ==
    { [ rows   |-> [t \in ResetTableNames |-> IF t \in S THEN 2 ELSE 0],
        hasSeq |-> h,
        seq    |-> [t \in ResetTableNames |-> IF h /\ t \in S THEN 2 ELSE 0] ] :
      S \in PopulatedSets, h \in BOOLEAN }

AllEmpty(store) == \A t \in ResetTableNames : store.rows[t] = 0

\* Messages of the SQLite driver.
ErrNoSuchTable(name) == << "no", "such", "table", ":", name >>
ErrLocked == << "database", "is", "locked" >>
ErrSyntax == << "near", "bogus", ":", "syntax", "error" >>
ErrConstraint == << "UNIQUE", "constraint", "failed" >>
ErrNotADatabase == << "file", "is", "not", "a", "database" >>

\* A mutant of IsNoSuchTable: no error of the sequence reset is tolerated.
IsNoSuchTableNever(err) == FALSE

\* A mutant of IsNoSuchTable: every error of the sequence reset is tolerated.
IsNoSuchTableAlways(err) == TRUE

\* strings.Contains(err.Error(), "no such table")
IsNoSuchTable(err) == Contains(err, << "no", "such", "table" >>)

\* The tokens a seed script is made of.
Semi == ";"
Space == " "
InsertUsers == "INSERT INTO users"
InsertFilter == "INSERT INTO filter"
Bogus == "bogus"
SqliteHeader == "SQLite format 3"
ScriptTokens == { Semi, Space, InsertUsers, InsertFilter, Bogus }

InsertTable(tok) == IF tok = InsertUsers THEN "users" ELSE "filter"

Scripts == UNION { [1..n -> ScriptTokens] : n \in 0..MaxScriptLen }

\* The two files of a run: the SQLite database and the seed script.
DbFile == "autobrr.db"
SeedFile == "seed.sql"
IsDatabase(path) == path = DbFile

\* main: seedDBPath := flag.Arg(1)
seedDBPath == Arg(1)

\* main: dbPath := flag.Arg(2)
dbPath == Arg(2)

\* What ioutil.ReadFile(path) can return: a script, or the bytes of the
\* database file, which begin with its header.
FileTexts(path) == IF IsDatabase(path) THEN { << SqliteHeader >> } ELSE Scripts

\* strings.Split(s, ";"): the fragments between the separators, one more
\* than there are separators (a single empty fragment for the empty text).
RECURSIVE SplitFrom(_, _, _)
SplitFrom(s, i, cur) ==
    IF i > Len(s) THEN << cur >>
    ELSE IF s[i] = Semi THEN << cur >> \o SplitFrom(s, i + 1, <<>>)
    ELSE SplitFrom(s, i + 1, Append(cur, s[i]))

\* A mutant of Split: the fragments come out last first.
SplitBackwards(s) ==
    LET f == SplitFrom(s, 1, <<>>) IN [i \in 1..Len(f) |-> f[Len(f) + 1 - i]]

Split(s) == SplitFrom(s, 1, <<>>)

\* The statement of a fragment without its white space.
Stripped(cmd) == SelectSeq(cmd, LAMBDA tok : tok # Space)

\* A fragment the database has nothing to run for.
IsBlank(cmd) == Stripped(cmd) = <<>>

\* A fragment that is one well-formed INSERT.
IsInsert(cmd) ==
    /\ Len(Stripped(cmd)) = 1
    /\ Stripped(cmd)[1] \in {InsertUsers, InsertFilter}

\* The answers the store can give to tx.Exec(cmd).
ExecAnswers(cmd) ==
    IF IsBlank(cmd) THEN { Nil }
    ELSE IF IsInsert(cmd) THEN { Nil, ErrConstraint }
    ELSE { ErrSyntax }

\* The effect of a statement that succeeded on the working copy: an INSERT
\* adds a row to its table and, where the store keeps sqlite_sequence, moves
\* the table's counter on by one.
ApplyCmd(data, cmd) ==
    IF IsInsert(cmd)
    THEN LET table == InsertTable(Stripped(cmd)[1]) IN
         [data EXCEPT !.rows[table] = @ + 1,
                      !.seq[table] = IF data.hasSeq THEN @ + 1 ELSE @]
    ELSE data

-----------------------------------------------------------------------------
(* main, resetDB, seedDB *)

\* main, case "db:seed" (up to the call of seedDB).
MainSeed ==
    /\ pc = "main"
    /\ Arg(0) = "db:seed"
    /\ IF Arg(1) = "" \/ Arg(2) = ""
       THEN /\ pc' = "exited"
            /\ exitCode' = 1
            /\ stdout' = stdout \o << << "Error: missing path" >>, << "usage" >> >>
       ELSE /\ pc' = "seed_begin"
            /\ UNCHANGED <<exitCode, stdout>>
    /\ UNCHANGED <<args, external, fatal, migrateVars, ctlVars, ins>>

\* main, case "db:reset" (up to the call of resetDB).
MainReset ==
    /\ pc = "main"
    /\ Arg(0) = "db:reset"
    /\ IF Arg(1) = "" \/ Arg(2) = ""
       THEN /\ pc' = "exited"
            /\ exitCode' = 1
            /\ stdout' = stdout \o << << "Error: missing path" >>, << "usage" >> >>
       ELSE /\ pc' = "reset_begin"
            /\ UNCHANGED <<exitCode, stdout>>
    /\ UNCHANGED <<args, external, fatal, migrateVars, ctlVars, ins>>

\* resetDB up to its loop: open the database, begin the transaction.
ResetBegin ==
    /\ pc = "reset_begin"
    /\ fsLog' = Append(fsLog, << "sql.Open", dbPath >>)
    /\ \E err \in {"", "open", "begin"} :
         IF err # ""
         THEN /\ Fatal(<< err, "resetDB" >>)
              /\ UNCHANGED <<sqliteTx, storeBefore, resetStatus, resetIdx>>
         ELSE /\ sqliteTx' = Begin(sqlite)
              /\ storeBefore' = sqlite
              /\ resetStatus' = "open"
              /\ resetIdx' = 1
              /\ pc' = "reset_loop"
              /\ UNCHANGED <<exitCode, fatal>>
    /\ UNCHANGED <<args, external, stdout, migrateVars, ins,
                   store0, sqlFile, sqlite, seedStatus, resetLog,
                   sqlCommands, cmdIdx, executed>>

\* The answers of the store to DELETE FROM table; a file that is no
\* database answers every statement that reads it with the same error.
DeleteAnswers(table) ==
    IF IsDatabase(dbPath) THEN { Nil, ErrNoSuchTable(table) } ELSE { ErrNotADatabase }

\* The answers of the store to the UPDATE of sqlite_sequence.
SeqAnswers(store) ==
    IF store.hasSeq THEN { Nil, ErrLocked } ELSE { ErrNoSuchTable("sqlite_sequence") }

\* A mutant of DeleteFrom: the rows stay.
DeleteFromKeeps(data, table) == data

\* DELETE FROM table, on the working copy.
DeleteFrom(data, table) == [data EXCEPT !.rows[table] = 0]

\* A mutant of ResetSequence: the counter restarts at one.
ResetSequenceToOne(data, table) == [data EXCEPT !.seq[table] = 1]

\* UPDATE sqlite_sequence SET seq = 0 WHERE name = table, on the working copy.
ResetSequence(data, table) == [data EXCEPT !.seq[table] = 0]

\* One iteration of resetDB's loop: DELETE FROM the table, reset its sequence.
\* An error rolls the transaction back and returns to main.
ResetTable ==
    /\ pc = "reset_loop"
    /\ resetIdx <= Len(resetTables)
    /\ LET table == resetTables[resetIdx] IN
       \E delErr \in DeleteAnswers(table), seqErr \in SeqAnswers(sqlite) :
         IF delErr # Nil
         THEN /\ seqErr = CHOOSE e \in SeqAnswers(sqlite) : TRUE
              /\ resetLog' = Append(resetLog, << table, "DELETE", delErr >>)
              /\ sqlite' = Rollback(sqlite, sqliteTx)
              /\ sqliteTx' = NoTx(Rollback(sqlite, sqliteTx))
              /\ resetStatus' = "rolledback"
              /\ pc' = "reset_returned"
              /\ UNCHANGED resetIdx
         ELSE IF seqErr # Nil /\ ~IsNoSuchTable(seqErr)
         THEN /\ resetLog' = resetLog \o << << table, "DELETE", delErr >>,
                                             << table, "UPDATE", seqErr >> >>
              /\ sqlite' = Rollback(sqlite, sqliteTx)
              /\ sqliteTx' = NoTx(Rollback(sqlite, sqliteTx))
              /\ resetStatus' = "rolledback"
              /\ pc' = "reset_returned"
              /\ UNCHANGED resetIdx
         ELSE /\ resetLog' = resetLog \o << << table, "DELETE", delErr >>,
                                             << table, "UPDATE", seqErr >> >>
              /\ sqliteTx' =
                   [sqliteTx EXCEPT !.data =
                        IF seqErr = Nil
                        THEN ResetSequence(DeleteFrom(@, table), table)
                        ELSE DeleteFrom(@, table)]
              /\ resetIdx' = resetIdx + 1
              /\ UNCHANGED <<sqlite, resetStatus, pc>>
    /\ UNCHANGED <<args, external, exitCode, fatal, stdout, migrateVars, ins,
                   store0, sqlFile, storeBefore,
                   seedStatus, sqlCommands, cmdIdx, executed, fsLog>>

\* After the loop of resetDB: commit, and return to main.
ResetCommit ==
    /\ pc = "reset_loop"
    /\ resetIdx > Len(resetTables)
    /\ \E commitErr \in BOOLEAN :
         IF commitErr
         THEN /\ Fatal(<< "commit", "resetDB" >>)
              /\ UNCHANGED <<sqlite, sqliteTx, resetStatus>>
         ELSE /\ sqlite' = Commit(sqlite, sqliteTx)
              /\ sqliteTx' = NoTx(Commit(sqlite, sqliteTx))
              /\ resetStatus' = "committed"
              /\ pc' = "reset_returned"
              /\ UNCHANGED <<exitCode, fatal>>
    /\ UNCHANGED <<args, external, stdout, migrateVars, ins,
                   store0, sqlFile, storeBefore, seedStatus,
                   resetIdx,
                   resetLog, sqlCommands, cmdIdx, executed, fsLog>>

\* main, case "db:reset": resetDB has returned, seedDB is called next.
MainResetThenSeed ==
    /\ pc = "reset_returned"
    /\ pc' = "seed_begin"
    /\ UNCHANGED <<args, external, exitCode, fatal, stdout, migrateVars, ctlVars, ins>>

\* seedDB up to its loop: read the script, open the database, begin the
\* transaction, split the script at ";".
SeedBegin ==
    /\ pc = "seed_begin"
    /\ \E err \in {"", "read", "open", "begin"} :
         /\ fsLog' = fsLog \o (IF err = "read"
                               THEN << << "ReadFile", seedDBPath >> >>
                               ELSE << << "ReadFile", seedDBPath >>,
                                       << "sql.Open", dbPath >> >>)
         /\ IF err # ""
            THEN /\ Fatal(<< err, "seedDB" >>)
                 /\ UNCHANGED <<sqliteTx, storeBefore, seedStatus, sqlFile, sqlCommands,
                                cmdIdx>>
            ELSE \E text \in FileTexts(seedDBPath) :
                 /\ sqlFile' = text
                 /\ sqliteTx' = Begin(sqlite)
                 /\ storeBefore' = sqlite
                 /\ seedStatus' = "open"
                 /\ sqlCommands' = Split(text)
                 /\ cmdIdx' = 1
                 /\ pc' = "seed_loop"
                 /\ UNCHANGED <<exitCode, fatal>>
    /\ UNCHANGED <<args, external, stdout, migrateVars, ins, store0, sqlite, resetStatus,
                   resetIdx, resetLog, executed>>

\* One iteration of seedDB's loop: execute the fragment; an error rolls the
\* transaction back and returns to main.
SeedExec ==
    /\ pc = "seed_loop"
    /\ cmdIdx <= Len(sqlCommands)
    /\ LET cmd == sqlCommands[cmdIdx] IN
       \E err \in ExecAnswers(cmd) :
         /\ executed' = Append(executed, << cmd, err >>)
         /\ IF err # Nil
            THEN /\ sqlite' = Rollback(sqlite, sqliteTx)
                 /\ sqliteTx' = NoTx(Rollback(sqlite, sqliteTx))
                 /\ seedStatus' = "rolledback"
                 /\ pc' = "seed_returned"
                 /\ UNCHANGED cmdIdx
            ELSE /\ sqliteTx' = [sqliteTx EXCEPT !.data = ApplyCmd(@, cmd)]
                 /\ cmdIdx' = cmdIdx + 1
                 /\ UNCHANGED <<sqlite, seedStatus, pc>>
    /\ UNCHANGED <<args, external, exitCode, fatal, stdout, migrateVars, ins,
                   store0, sqlFile, storeBefore,
                   resetStatus, resetIdx, resetLog, sqlCommands, fsLog>>

\* After the loop of seedDB: commit, and return to main.
SeedCommit ==
    /\ pc = "seed_loop"
    /\ cmdIdx > Len(sqlCommands)
    /\ \E commitErr \in BOOLEAN :
         IF commitErr
         THEN /\ Fatal(<< "commit", "seedDB" >>)
              /\ UNCHANGED <<sqlite, sqliteTx, seedStatus>>
         ELSE /\ sqlite' = Commit(sqlite, sqliteTx)
              /\ sqliteTx' = NoTx(Commit(sqlite, sqliteTx))
              /\ seedStatus' = "committed"
              /\ pc' = "seed_returned"
              /\ UNCHANGED <<exitCode, fatal>>
    /\ UNCHANGED <<args, external, stdout, migrateVars, ins, store0, sqlFile, storeBefore,
                   resetStatus, resetIdx,
                   resetLog, sqlCommands, cmdIdx, executed, fsLog>>

\* main after seedDB has returned: the success message of the subcommand.
MainSuccess ==
    /\ pc = "seed_returned"
    /\ stdout' = Append(stdout,
                   IF Arg(0) = "db:seed"
                   THEN << "Database seeding completed successfully!" >>
                   ELSE << "Database reset completed successfully!" >>)
    /\ pc' = "exited"
    /\ exitCode' = 0
    /\ UNCHANGED <<args, external, fatal, migrateVars, ctlVars, ins>>

-----------------------------------------------------------------------------
(* The list of external filters of the filter form (External.tsx) *)

\* const newItem: id and name count from 1, index is the length of the list.
newItem ==
    [ id    |-> Len(external) + 1,
      index |-> Len(external),
      name  |-> Len(external) + 1 ]

\* The list without its element at position idx (positions count from 0).
Remove(list, idx) ==
    [i \in 1..(Len(list) - 1) |-> IF i < idx + 1 THEN list[i] ELSE list[i + 1]]

\* The list with element e put in at position idx.
InsertAt(list, idx, e) ==
    [i \in 1..(Len(list) + 1) |->
        IF i < idx + 1 THEN list[i] ELSE IF i = idx + 1 THEN e ELSE list[i - 1]]

\* move(from, to) of the field array: the element is taken out at from and
\* put back in at to.
Move(list, from, to) == InsertAt(Remove(list, from), to, list[from + 1])

\* setFieldValue(`external.${idx}.index`, value)
SetIndex(list, idx, value) == [list EXCEPT ![idx + 1].index = value]

\* The "Add new" button: push(newItem).
Push ==
    /\ pc = "form"
    /\ Len(external) < MaxExternal
    /\ external' = Append(external, newItem)
    /\ UNCHANGED cliVars

\* removeAction of the item at idx: remove(idx).
removeAction ==
    /\ pc = "form"
    /\ \E idx \in 0..(Len(external) - 1) :
         external' = Remove(external, idx)
    /\ UNCHANGED cliVars

\* moveUp of the item at idx, whose button is shown when idx > 0: the two
\* updates apply one after the other, so the index is written to the element
\* that stands at idx once the move is done.
moveUp ==
    /\ pc = "form"
    /\ \E idx \in 1..(Len(external) - 1) :
         external' = SetIndex(Move(external, idx, idx - 1), idx, idx - 1)
    /\ UNCHANGED cliVars

\* moveDown of the item at idx, whose button is shown when
\* idx < values.external.length - 1.
moveDown ==
    /\ pc = "form"
    /\ \E idx \in 0..(Len(external) - 2) :
         external' = SetIndex(Move(external, idx, idx + 1), idx, idx + 1)
    /\ UNCHANGED cliVars

-----------------------------------------------------------------------------
(* Specifications *)

\* No statement is being built.
InsIdle ==
    [ table |-> "", columns |-> <<>>, i |-> 0, colNames |-> <<>>,
      colPlaceholders |-> <<>>, srcRow |-> <<>>, values |-> <<>>,
      stmt |-> <<>>, written |-> <<>> ]

EmptyStore ==
    [ rows   |-> [t \in ResetTableNames |-> 0],
      hasSeq |-> FALSE,
      seq    |-> [t \in ResetTableNames |-> 0] ]

InitCommon ==
    /\ exitCode = -1
    /\ fatal = <<>>
    /\ stdout = <<>>
    /\ tableIdx = 1
    /\ srcRows = [t \in TableNames |-> 0]
    /\ results = [t \in TableNames |-> <<>>]
    /\ postgres = EmptyPg
    /\ pgTx = NoTx(EmptyPg)
    /\ resetStatus = "none"
    /\ seedStatus = "none"
    /\ resetIdx = 1
    /\ resetLog = <<>>
    /\ sqlFile = <<>>
    /\ sqlCommands = <<>>
    /\ cmdIdx = 1
    /\ executed = <<>>
    /\ txLog = <<>>
    /\ fsLog = <<>>

MigrateArgs ==
    { << "db:migrate", "autobrr.db", "postgres://localhost/autobrr" >>,
      << "db:migrate", "autobrr.db" >>,
      << "db:migrate" >> }

CtlArgs ==
    { << c, SeedFile, DbFile >> : c \in {"db:seed", "db:reset"} }
    \cup { << c, DbFile, SeedFile >> : c \in {"db:seed", "db:reset"} }
    \cup { << c, SeedFile >> : c \in {"db:seed", "db:reset"} }
    \cup { << c >> : c \in {"db:seed", "db:reset"} }

InitMigrate ==
    /\ InitCommon
    /\ external = <<>>
    /\ pc = "main"
    /\ args \in MigrateArgs
    /\ sqlite = EmptyStore
    /\ sqliteTx = NoTx(EmptyStore)
    /\ storeBefore = EmptyStore
    /\ store0 = EmptyStore
    /\ ins = InsIdle

InitCtl ==
    /\ InitCommon
    /\ external = <<>>
    /\ pc = "main"
    /\ args \in CtlArgs
    /\ sqlite \in Stores
    /\ sqliteTx = NoTx(sqlite)
    /\ storeBefore = sqlite
    /\ store0 = sqlite
    /\ ins = InsIdle

\* One table of a run of migrate, from the column list the source
\* reports to the first row stored.
InitInsert ==
    /\ InitCommon
    /\ external = <<>>
    /\ pc = "insert_columns"
    /\ args = << "db:migrate", "autobrr.db", "postgres://localhost/autobrr" >>
    /\ sqlite = EmptyStore
    /\ sqliteTx = NoTx(EmptyStore)
    /\ storeBefore = EmptyStore
    /\ store0 = EmptyStore
    /\ \E table \in SrcPopulated, cols \in ColumnLists :
         ins = [InsIdle EXCEPT !.table = table, !.columns = cols]

NextInsert ==
    \/ InsertColumn
    \/ InsertScan
    \/ InsertExec

\* The form as it is loaded: the external filters of the filter, each with
\* its position as index.
InitExternal ==
    /\ InitCommon
    /\ pc = "form"
    /\ args = <<>>
    /\ sqlite = EmptyStore
    /\ sqliteTx = NoTx(EmptyStore)
    /\ storeBefore = EmptyStore
    /\ store0 = EmptyStore
    /\ ins = InsIdle
    /\ \E n \in 0..(MaxExternal - 1) :
         external = [i \in 1..n |-> [id |-> i, index |-> i - 1, name |-> i]]

NextExternal ==
    \/ Push
    \/ removeAction
    \/ moveUp
    \/ moveDown

NextMigrate ==
    \/ MainMigrate
    \/ MigrateBeginTable
    \/ MigrateRow
    \/ MigrateEndTable
    \/ MigrateFinish

NextCtl ==
    \/ MainSeed
    \/ MainReset
    \/ ResetBegin
    \/ ResetTable
    \/ ResetCommit
    \/ MainResetThenSeed
    \/ SeedBegin
    \/ SeedExec
    \/ SeedCommit
    \/ MainSuccess

SpecMigrate == InitMigrate /\ [][NextMigrate]_vars

\* The process of db:migrate is sequential and every call it makes
\* returns: a step that is possible is taken.
SpecMigrateFair == SpecMigrate /\ WF_vars(NextMigrate)

SpecCtl == InitCtl /\ [][NextCtl]_vars

SpecInsert == InitInsert /\ [][NextInsert]_vars

SpecExternal == InitExternal /\ [][NextExternal]_vars

-----------------------------------------------------------------------------
(* What a run of migrate shows *)

Last(s) == s[Len(s)]

\* The tables of the "Migrated table" lines printed so far, in order.
MigratedTables ==
    LET lines == SelectSeq(stdout, LAMBDA l : l[1] = "Migrated table")
    IN [i \in 1..Len(lines) |-> lines[i][2]]

\* The line of table t was printed: its loop iteration ran to its end.
Finished(t) == \E i \in 1..Len(stdout) : stdout[i] = << "Migrated table", t >>

SuccessPrinted ==
    \E i \in 1..Len(stdout) : stdout[i] = << "Migration completed successfully!" >>

\* The positions a..b in ascending order.
Positions(a, b) == [i \in 1..(b - a + 1) |-> a + i - 1]

\* The rows of t read so far that the destination rejected with a
\* foreign-key violation.
FkRows(t) == { i \in 1..Len(results[t]) : results[t][i] = ErrForeignKey }

\* The position of the last of them, 0 when there is none.
LastFk(t) == IF FkRows(t) = {} THEN 0 ELSE CHOOSE k \in FkRows(t) : \A j \in FkRows(t) : j <= k

\* The rows of t read so far whose insert succeeded, in ascending order.
OkRows(t) ==
    SelectSeq(Positions(1, Len(results[t])), LAMBDA i : results[t][i] = Nil)

\* The cursor of t was read to its last row.
Exhausted(t) == Len(results[t]) = srcRows[t]

TableIndex(t) == CHOOSE i \in 1..Len(tables) : tables[i] = t

\* C1: for a table with N source rows of which exactly row k is rejected
\* with a foreign-key violation and all others are accepted, after migrate
\* finishes the table the destination holds exactly the N-1 accepted rows.
C1_OneForeignKeyRowLosesOnlyThatRow ==
    \A t \in TableNames :
        ( /\ Finished(t)
          /\ Exhausted(t)
          /\ Cardinality(FkRows(t)) = 1
          /\ \A i \in 1..Len(results[t]) : results[t][i] \in {Nil, ErrForeignKey} )
        => /\ postgres[t] = OkRows(t)
           /\ Len(postgres[t]) = srcRows[t] - 1

\* C2: a foreign-key failure rolls back every row inserted since the table's
\* transaction was last opened: while a table is copied its transaction
\* holds exactly the rows read after the last foreign-key failure, and once
\* the table is finished exactly those rows are committed for it.
C2_RollbackLosesRowsBeforeLastFailure ==
    \A t \in TableNames :
        /\ (pc = "migrate_rows" /\ t = tables[tableIdx])
               => /\ pgTx.open
                  /\ pgTx.data[t] = Positions(LastFk(t) + 1, Len(results[t]))
                  /\ postgres[t] = <<>>
        /\ Finished(t) => postgres[t] = Positions(LastFk(t) + 1, Len(results[t]))

C2_Witness ==
    \E t \in TableNames :
        /\ Finished(t)
        /\ Exhausted(t)
        /\ results[t] = << Nil, ErrForeignKey, Nil >>
        /\ postgres[t] = << 3 >>

\* C3: a foreign-key violation on a row never aborts the run: after it the
\* table's transaction is open again and the loop goes on, the table is
\* committed at its end, and a run that meets no fatal error prints the
\* success message after all 13 tables, whatever rows were skipped.
C3_ForeignKeyNeverAborts ==
    /\ \A t \in TableNames : \A i \in FkRows(t) :
           \/ i < Len(results[t])
           \/ Finished(t)
           \/ pc = "migrate_rows" /\ t = tables[tableIdx] /\ pgTx.open
           \/ pc = "exited" /\ exitCode = 1
                 /\ fatal \in { << "begin", t >>, << "scan", t >>,
                                << "prepare", t >>, << "commit", t >> }
    /\ (pc = "exited" /\ fatal = <<>> /\ Len(args) = 3)
           => /\ exitCode = 0
              /\ \A t \in TableNames : Finished(t)
              /\ Last(stdout) = << "Migration completed successfully!" >>

C3_Witness ==
    /\ pc = "exited"
    /\ exitCode = 0
    /\ SuccessPrinted
    /\ \E t \in TableNames :
          /\ results[t] = << ErrForeignKey, Nil >>
          /\ postgres[t] = << 2 >>
          /\ TableIndex(t) < Len(tables)

\* The answers to an INSERT that are errors other than a foreign-key violation.
OtherErrors == { ErrUnique, ErrNotNull, ErrConn }

\* C4: an insert error that is not a foreign-key violation aborts the run at
\* once with exit status 1: the row is the last one read, no later table is
\* touched, the table's transaction is never committed, neither its line
\* nor the success message is printed, and the process takes no further step.
C4_OtherInsertErrorAborts ==
    \A t \in TableNames : \A i \in 1..Len(results[t]) :
        results[t][i] \in OtherErrors
        => /\ i = Len(results[t])
           /\ pc = "exited"
           /\ exitCode = 1
           /\ fatal = << "insert", t >>
           /\ t = tables[tableIdx]
           /\ postgres[t] = <<>>
           /\ ~Finished(t)
           /\ ~SuccessPrinted
           /\ \A j \in (tableIdx + 1)..Len(tables) :
                  /\ results[tables[j]] = <<>>
                  /\ postgres[tables[j]] = <<>>
                  /\ ~Finished(tables[j])
           /\ ~ENABLED NextMigrate

C4_Witness ==
    \E t \in TableNames :
        /\ pc = "exited"
        /\ results[t] = << Nil, ErrConn >>
        /\ srcRows[t] = 3
        /\ pgTx.open
        /\ pgTx.data[t] = << 1 >>
        /\ postgres[t] = <<>>
        /\ TableIndex(t) < Len(tables)

\* C5 as claimed: a row that is already in the destination (its insert is
\* answered with a unique violation) is skipped and the run goes on: the
\* run never ends on that row.
C5_DuplicateRowIsSkipped ==
    \A t \in TableNames : \A i \in 1..Len(results[t]) :
        results[t][i] = ErrUnique
        => ~( pc = "exited" /\ exitCode # 0 /\ i = Len(results[t]) /\ ~Finished(t) )

\* C5 as amended: a row that is already in the destination is not skipped;
\* its unique violation is not a foreign-key violation, so the run ends on
\* that row with exit status 1, the table uncommitted and no success message.
C5_DuplicateRowAborts ==
    \A t \in TableNames : \A i \in 1..Len(results[t]) :
        results[t][i] = ErrUnique
        => /\ i = Len(results[t])
           /\ pc = "exited"
           /\ exitCode = 1
           /\ fatal = << "insert", t >>
           /\ pgTx.open
           /\ postgres[t] = <<>>
           /\ ~Finished(t)
           /\ ~SuccessPrinted

C5_Witness ==
    /\ pc = "exited"
    /\ exitCode = 1
    /\ \E t \in TableNames :
          /\ t = tables[tableIdx]
          /\ results[t] = << ErrUnique >>
          /\ srcRows[t] = 2
          /\ tableIdx > 1

\* C6: migrate goes through the 13 tables users .. api_key once each in that
\* order; the "Migrated table" lines of any run are a prefix of that list,
\* one per committed table, and the whole list when the run succeeds.
C6_CatalogOrder ==
    LET catalog == << "users", "indexer", "irc_network", "irc_channel", "client",
                      "filter", "action", "notification", "filter_indexer",
                      "release", "release_action_status", "feed", "api_key" >>
        n == Len(MigratedTables)
    IN /\ n <= 13
       /\ MigratedTables = SubSeq(catalog, 1, n)
       /\ pc \in {"migrate_table", "migrate_rows"} => tableIdx = n + 1
       /\ pc = "migrate_rows" => tables[tableIdx] = catalog[n + 1]
       /\ \A i \in 1..13 :
             (srcRows[catalog[i]] > 0 \/ postgres[catalog[i]] # <<>>) => i <= n + 1
       /\ SuccessPrinted => n = 13 /\ Len(stdout) = 14
       /\ exitCode = 0 => SuccessPrinted

C6_Witness ==
    /\ pc = "exited"
    /\ exitCode = 0
    /\ Len(MigratedTables) = 13
    /\ MigratedTables[1] = "users"
    /\ MigratedTables[13] = "api_key"

-----------------------------------------------------------------------------
(* What a run of db:seed or db:reset shows *)

CtlSuccessPrinted ==
    \E i \in 1..Len(stdout) :
        stdout[i] \in { << "Database seeding completed successfully!" >>,
                        << "Database reset completed successfully!" >> }

\* C7: seed is all-or-nothing: once a statement of the script has failed and
\* seedDB has returned, the store is what it was before the seed, whatever
\* the statements before the failing one did; nothing of a seed shows in the
\* store before its commit.
C7_SeedAllOrNothing ==
    /\ seedStatus \in {"open", "rolledback"} => sqlite = storeBefore
    /\ seedStatus = "rolledback"
          => /\ ~sqliteTx.open
             /\ sqliteTx.data = storeBefore
             /\ Len(executed) = cmdIdx
             /\ Last(executed)[2] # Nil

C7_Witness ==
    /\ pc = "seed_returned"
    /\ seedStatus = "rolledback"
    /\ Len(executed) = 2
    /\ executed[1] = << << InsertUsers >>, Nil >>
    /\ executed[2] = << << Bogus >>, ErrSyntax >>
    /\ sqlite = storeBefore

\* Some table that held rows is cleared while some table still holds rows.
PartlyCleared(before, after) ==
    /\ \E t \in ResetTableNames : before.rows[t] > 0 /\ after.rows[t] = 0
    /\ \E t \in ResetTableNames : after.rows[t] > 0

\* C8: reset is all-or-nothing: after resetDB (and before the seed that
\* follows it) either its transaction was committed and every table of the
\* reset list is empty, or the store is exactly what it was; never are some
\* tables cleared and others not.
C8_ResetAllOrNothing ==
    (resetStatus # "none" /\ seedStatus = "none")
    => /\ resetStatus \in {"open", "rolledback"} => sqlite = storeBefore
       /\ resetStatus = "committed" => AllEmpty(sqlite)
       /\ ~PartlyCleared(storeBefore, sqlite)

C8_Witness ==
    /\ pc = "reset_returned"
    /\ resetStatus = "rolledback"
    /\ resetIdx = 3
    /\ Last(resetLog) = << resetTables[3], "UPDATE", ErrLocked >>
    /\ \A t \in ResetTableNames : storeBefore.rows[t] > 0
    /\ sqlite = storeBefore

\* The answer to a statement of the reset that the reset goes on after.
Tolerated(e) ==
    \/ e[3] = Nil
    \/ e[2] = "UPDATE" /\ e[3] = ErrNoSuchTable("sqlite_sequence")

\* C9: an error of the sequence-reset step saying that the sequence table is
\* missing is tolerated: the transaction is not rolled back, the remaining
\* tables are processed and the reset commits; any other error of a DELETE
\* or of a sequence reset is the last statement of the reset and rolls its
\* transaction back.
C9_MissingSequenceTolerated ==
    /\ \A i \in 1..Len(resetLog) :
          IF Tolerated(resetLog[i])
          THEN i = Len(resetLog) => resetStatus # "rolledback"
          ELSE /\ i = Len(resetLog)
               /\ resetStatus = "rolledback"
               /\ resetLog[i][1] = resetTables[resetIdx]
               /\ seedStatus = "none" => (~sqliteTx.open /\ sqlite = storeBefore)
    /\ resetStatus = "rolledback" => ~Tolerated(Last(resetLog))
    /\ (resetStatus = "open" /\ pc = "reset_loop")
          => /\ sqliteTx.open
             /\ Len(resetLog) = 2 * (resetIdx - 1)
    /\ resetStatus = "committed"
          => /\ Len(resetLog) = 2 * Len(resetTables)
             /\ \A i \in 1..Len(resetTables) :
                   /\ resetLog[2 * i - 1] = << resetTables[i], "DELETE", Nil >>
                   /\ resetLog[2 * i][1] = resetTables[i]
                   /\ resetLog[2 * i][2] = "UPDATE"

C9_Witness ==
    /\ resetStatus = "committed"
    /\ ~storeBefore.hasSeq
    /\ \A t \in ResetTableNames : storeBefore.rows[t] > 0
    /\ \A i \in 1..Len(resetTables) :
          resetLog[2 * i] = << resetTables[i], "UPDATE", ErrNoSuchTable("sqlite_sequence") >>
    /\ AllEmpty(sqlite)

\* C10: for db:seed and db:reset, when the reset or the seed has rolled back
\* on a statement error the process exits with a non-zero status and prints
\* no success message; success message and zero status only when every stage
\* committed.
C10_AbortExitsNonZero ==
    /\ (resetStatus = "rolledback" \/ seedStatus = "rolledback")
          => /\ ~CtlSuccessPrinted
             /\ pc = "exited" => exitCode # 0
    /\ (CtlSuccessPrinted \/ exitCode = 0)
          => /\ seedStatus = "committed"
             /\ Arg(0) = "db:reset" => resetStatus = "committed"

-----------------------------------------------------------------------------
(* The command line of db:seed and db:reset *)

\* The paths the run has given to sql.Open, and those it has given to
\* ioutil.ReadFile.
OpenedPaths == { fsLog[i][2] : i \in { j \in 1..Len(fsLog) : fsLog[j][1] = "sql.Open" } }
ReadPaths == { fsLog[i][2] : i \in { j \in 1..Len(fsLog) : fsLog[j][1] = "ReadFile" } }

\* C11: for db:seed and db:reset the first positional argument is the path
\* of the database that is opened, cleared and written, and the second is
\* the path of the seed script that is read, as the usage text documents
\* (db:seed <path-to-database> <seed-path>).
C11_ArgumentsAsDocumented ==
    /\ OpenedPaths \subseteq { Arg(1) }
    /\ ReadPaths \subseteq { Arg(2) }

-----------------------------------------------------------------------------
(* The statement migrate builds *)

\* C12: the INSERT statement names exactly the columns c1..cn in the
\* introspected order and has exactly the placeholders $1..$n in ascending
\* order, the row buffer has n slots, and the value read from column ci is
\* the value written to column ci.
C12_InsertBindsByPosition ==
    pc = "insert_done" =>
        LET n == Len(ins.columns) IN
        /\ ColumnsOf(ins.stmt) = ins.columns
        /\ PlaceholdersOf(ins.stmt) = Positions(1, n)
        /\ ins.stmt[1] = InsertInto(ins.table)
        /\ Len(ins.values) = n
        /\ \A k \in 1..n : ins.values[k] = ins.srcRow[ins.columns[k]]
        /\ ins.written = ins.srcRow

\* A row of two columns that hold different values has been stored.
C12_Witness ==
    /\ pc = "insert_done"
    /\ Len(ins.columns) = MaxColumns
    /\ ins.srcRow[ins.columns[1]] # ins.srcRow[ins.columns[2]]
    /\ ins.written = ins.srcRow

-----------------------------------------------------------------------------
(* db:reset on an empty store *)

\* The number of INSERT statements for table t in the script: the
\* occurrences of its INSERT in the fragments of the script.
InsertCount(t) ==
    Cardinality({ p \in (1..Len(sqlCommands)) \X (1..MaxScriptLen) :
                    /\ p[2] <= Len(sqlCommands[p[1]])
                    /\ sqlCommands[p[1]][p[2]] \in {InsertUsers, InsertFilter}
                    /\ InsertTable(sqlCommands[p[1]][p[2]]) = t })

\* C13: after db:reset on an empty store with a script whose statements
\* all succeed, every table holds as many rows as the script has INSERT
\* statements for it.
C13_ResetThenSeedCounts ==
    ( /\ Arg(0) = "db:reset"
      /\ AllEmpty(store0)
      /\ resetStatus = "committed"
      /\ seedStatus = "committed" )
    => \A t \in ResetTableNames : sqlite.rows[t] = InsertCount(t)

\* db:reset on an empty store has seeded one row into each of two tables.
C13_Witness ==
    /\ Arg(0) = "db:reset"
    /\ AllEmpty(store0)
    /\ resetStatus = "committed"
    /\ seedStatus = "committed"
    /\ InsertCount("users") = 1
    /\ InsertCount("filter") = 1
    /\ sqlite.rows["users"] = 1
    /\ sqlite.rows["filter"] = 1

-----------------------------------------------------------------------------
(* resetDB run again *)

\* The stores a successful reset can leave: no rows, every counter at 0.
Cleared(store) ==
    /\ AllEmpty(store)
    /\ \A t \in ResetTableNames : store.seq[t] = 0

\* resetDB has returned to main and seedDB has not begun.
ResetReturned == pc = "reset_returned"

\* C14: reset is idempotent.  A reset that commits leaves a cleared store,
\* which is a store a run can start from; and resetDB run on a cleared store
\* deletes no row and leaves that same store, whatever the outcome of its
\* transaction.
C14_ResetIdempotent ==
    ResetReturned =>
        /\ resetStatus = "committed" => (Cleared(sqlite) /\ sqlite \in Stores)
        /\ Cleared(store0) =>
              /\ sqlite = store0
              /\ \A i \in 1..Len(resetLog) :
                    resetLog[i][2] = "DELETE" => store0.rows[resetLog[i][1]] = 0

\* resetDB has run on a cleared store, every statement was answered without
\* error, and the transaction was committed.
C14_Witness ==
    /\ ResetReturned
    /\ Cleared(store0)
    /\ store0.hasSeq
    /\ resetStatus = "committed"
    /\ Len(resetLog) = 2 * Len(resetTables)
    /\ \A i \in 1..Len(resetLog) : resetLog[i][3] = Nil
    /\ sqlite = store0

-----------------------------------------------------------------------------
(* The fragments seedDB sends to the database *)

\* C15: only the non-empty statements of the script are executed; a
\* fragment that is empty or holds only white space is never sent to the
\* database.
C15_BlankFragmentsNotExecuted ==
    \A i \in 1..Len(executed) : ~IsBlank(executed[i][1])

-----------------------------------------------------------------------------
(* A source table that cannot be read *)

\* The source could not be queried for t, or could not describe the
\* columns of t.
SourceFailed(t) ==
    \E i \in 1..Len(txLog) :
        txLog[i] \in { << "Query failed", t >>, << "ColumnTypes failed", t >> }

\* C16: if the source cannot be queried or cannot describe its columns for
\* a table, the run aborts with a non-zero exit: no row of that table or of
\* a later table is inserted, no transaction is begun for them, the success
\* message is not printed and the process takes no further step.
C16_SourceFailureAborts ==
    \A t \in TableNames :
        SourceFailed(t) =>
            /\ pc = "exited"
            /\ exitCode = 1
            /\ fatal # <<>>
            /\ t = tables[tableIdx]
            /\ ~pgTx.open
            /\ \A j \in tableIdx..Len(tables) :
                   /\ results[tables[j]] = <<>>
                   /\ postgres[tables[j]] = <<>>
                   /\ ~Finished(tables[j])
                   /\ \A i \in 1..Len(txLog) :
                          txLog[i] \notin { << "Begin", tables[j] >>, << "Exec", tables[j] >> }
            /\ ~SuccessPrinted
            /\ ~ENABLED NextMigrate

\* The source failed on the second table after the first was migrated with
\* its rows.
C16_Witness ==
    /\ SourceFailed(tables[2])
    /\ Finished(tables[1])
    /\ Len(postgres[tables[1]]) = 2
    /\ pc = "exited"

-----------------------------------------------------------------------------
(* How a run of migrate ends *)

\* The transaction of table t was committed.
Committed(t) == \E i \in 1..Len(txLog) : txLog[i] = << "Commit", t >>

AllCommitted == \A t \in TableNames : Committed(t)

\* main has called migrate: both arguments were given.
MigrateCalled == Len(args) = 3

\* Outcome (a): every table committed, the success message printed after
\* the line of the last table.
EndedInSuccess ==
    /\ exitCode = 0
    /\ fatal = <<>>
    /\ AllCommitted
    /\ MigratedTables = tables
    /\ Len(stdout) = Len(tables) + 1
    /\ Last(stdout) = << "Migration completed successfully!" >>

\* Outcome (b): exit status 1 after a logged fatal error, no success message.
EndedInFatal ==
    /\ exitCode = 1
    /\ fatal # <<>>
    /\ ~SuccessPrinted

\* C17: every run of migrate ends, in exactly one of two ways: all tables
\* committed and the success message printed last, or a non-zero exit after
\* a logged fatal error with no success message; the success message is
\* printed if and only if the transaction of every table was committed.
C17_RunEndsInOneOutcome ==
    /\ <>(pc = "exited")
    /\ []((pc = "exited" /\ MigrateCalled) =>
             /\ EndedInSuccess \/ EndedInFatal
             /\ ~(EndedInSuccess /\ EndedInFatal)
             /\ SuccessPrinted <=> AllCommitted)
    /\ [](SuccessPrinted => (AllCommitted /\ pc = "exited"))

\* A run has ended in success after a row was skipped, and so without
\* every source row in the destination.
C17_Witness ==
    /\ pc = "exited"
    /\ EndedInSuccess
    /\ \E t \in TableNames : FkRows(t) # {} /\ Len(postgres[t]) = 1

-----------------------------------------------------------------------------
(* The destination transactions of a run of migrate *)

\* The calls from position k on, read in order with the number of open
\* destination transactions and the table the open one was begun for:
\* the number left open at the end, or -1 if a second transaction is begun
\* while one is open, or a statement, rollback or commit is issued with none
\* open or for another table than the open one's.
RECURSIVE OpenAtEnd(_, _, _)
OpenAtEnd(k, open, owner) ==
    IF k > Len(txLog) THEN open
    ELSE LET kind  == txLog[k][1]
             table == txLog[k][2]
         IN IF kind = "Begin"
            THEN IF open = 0 THEN OpenAtEnd(k + 1, 1, table) ELSE -1
            ELSE IF kind = "Exec"
            THEN IF open = 1 /\ owner = table THEN OpenAtEnd(k + 1, 1, owner) ELSE -1
            ELSE IF kind \in {"Rollback", "Commit"}
            THEN IF open = 1 /\ owner = table THEN OpenAtEnd(k + 1, 0, "") ELSE -1
            ELSE OpenAtEnd(k + 1, open, owner)

\* C18: at every point at most one destination transaction is open, and it
\* belongs to one table: a statement, rollback or commit acts on the open
\* transaction, which was begun for the same table.  The calls of a run
\* (source query, begin, insert, rollback, commit) start with the first
\* table, and each is for the table of the call before it, unless that call
\* committed the table's transaction: then it is for the next table.
C18_OneTransactionPerTable ==
    LET open == OpenAtEnd(1, 0, "") IN
    /\ open \in {0, 1}
    /\ pgTx.open <=> open = 1
    /\ txLog # <<>> => txLog[1][2] = tables[1]
    /\ \A k \in 2..Len(txLog) :
          IF txLog[k - 1][1] = "Commit"
          THEN \E i \in 1..(Len(tables) - 1) :
                   tables[i] = txLog[k - 1][2] /\ tables[i + 1] = txLog[k][2]
          ELSE txLog[k][2] = txLog[k - 1][2]
    /\ pgTx.open =>
          \A t \in TableNames : t # tables[tableIdx] => pgTx.data[t] = postgres[t]

\* Two tables were migrated with rows, the first through a second
\* transaction begun after a foreign-key failure, and a third is open.
C18_Witness ==
    /\ Committed(tables[1])
    /\ Committed(tables[2])
    /\ \E k \in 1..Len(txLog) : txLog[k] = << "Rollback", tables[1] >>
    /\ postgres[tables[1]] # <<>>
    /\ postgres[tables[7]] # <<>>
    /\ pgTx.open
    /\ tableIdx = 8

-----------------------------------------------------------------------------
(* The tables of reset and the tables of migrate *)

\* The tables a DELETE was issued for by the run of resetDB.
ClearedTables ==
    { resetLog[i][1] : i \in { j \in 1..Len(resetLog) : resetLog[j][2] = "DELETE" } }

\* C19: a reset that commits has cleared the tables of the migrate list
\* and feed_cache, and no other: every migrated table is reset, and
\* feed_cache is the only table reset that is not migrated.
C19_ResetClearsCatalogAndFeedCache ==
    resetStatus = "committed" =>
        /\ ClearedTables = TableNames \cup { "feed_cache" }
        /\ "feed_cache" \notin TableNames
        /\ ClearedTables \ TableNames = { "feed_cache" }

\* A reset has committed on a store that held rows in feed_cache and in a
\* migrated table.
C19_Witness ==
    /\ ResetReturned
    /\ resetStatus = "committed"
    /\ store0.rows["feed_cache"] = 2
    /\ store0.rows["users"] = 2
    /\ sqlite.rows["feed_cache"] = 0
    /\ sqlite.rows["users"] = 0

-----------------------------------------------------------------------------
(* A table whose rows are all accepted *)

\* The number of "Migrated table" lines printed for t.
LinesFor(t) ==
    Cardinality({ i \in 1..Len(stdout) : stdout[i] = << "Migrated table", t >> })

\* C20: for a table with N source rows none of whose inserts is rejected,
\* migrate commits exactly the N rows and prints exactly one line for the
\* table (N = 0 included).
C20_AcceptedRowsAllCommitted ==
    \A t \in TableNames :
        ( /\ Finished(t)
          /\ \A i \in 1..Len(results[t]) : results[t][i] = Nil )
        => /\ postgres[t] = Positions(1, srcRows[t])
           /\ LinesFor(t) = 1

-----------------------------------------------------------------------------
(* When a table is committed *)

\* The number of times the transaction of t was committed.
CommitCount(t) ==
    Cardinality({ i \in 1..Len(txLog) : txLog[i] = << "Commit", t >> })

\* Every commit is the last call for its table, and the calls that follow
\* it are the query of the next table and the begin of a new transaction.
CommitEndsTable ==
    \A k \in 1..Len(txLog) :
        txLog[k][1] = "Commit" =>
            /\ \A j \in (k + 1)..Len(txLog) : txLog[j][2] # txLog[k][2]
            /\ k + 1 <= Len(txLog) => txLog[k + 1][1] \in {"Query", "Query failed"}
            /\ k + 2 <= Len(txLog) =>
                  txLog[k + 2][1] \in {"Begin", "Begin failed", "ColumnTypes failed"}

\* C21: within a table no commit occurs before the source cursor is
\* exhausted: a committed table had every one of its source rows read, a
\* table that completes is committed exactly once, and the next table
\* starts with a newly begun transaction.
C21_CommitOnlyWhenCursorExhausted ==
    /\ \A t \in TableNames : Committed(t) => Exhausted(t)
    /\ \A t \in TableNames : CommitCount(t) = (IF Finished(t) THEN 1 ELSE 0)
    /\ CommitEndsTable

-----------------------------------------------------------------------------
(* The transaction every INSERT runs in *)

\* The number of calls of one kind made for table t.
CallCount(kind, t) ==
    Cardinality({ i \in 1..Len(txLog) : txLog[i] = << kind, t >> })

\* C22: every INSERT is executed inside an open transaction of its table:
\* one is begun before the first row, each row read is executed once and
\* never again, an INSERT follows a begin or an INSERT of the same table,
\* a rollback follows the INSERT that failed and is followed by one begin
\* (or by the end of the run if that begin fails), and a table has as many
\* rollbacks as rows rejected with a foreign-key violation.
C22_InsertsRunInOpenTransaction ==
    /\ OpenAtEnd(1, 0, "") >= 0
    /\ \A k \in 1..Len(txLog) :
          /\ txLog[k][1] = "Exec" =>
                /\ k > 1
                /\ txLog[k - 1] \in { << "Begin", txLog[k][2] >>, << "Exec", txLog[k][2] >> }
          /\ txLog[k][1] = "Rollback" =>
                /\ txLog[k - 1] = << "Exec", txLog[k][2] >>
                /\ k < Len(txLog) => txLog[k + 1] = << "Begin", txLog[k][2] >>
                /\ k = Len(txLog) => (pc = "exited" /\ fatal = << "begin", txLog[k][2] >>)
    /\ \A t \in SrcPopulated :
          /\ CallCount("Exec", t) = Len(results[t])
          /\ CallCount("Rollback", t) = Cardinality(FkRows(t))
          /\ CallCount("Begin", t) \in
                { n \in 0..(1 + Cardinality(FkRows(t))) :
                    n >= Cardinality(FkRows(t)) /\ (results[t] # <<>> => n >= 1) }
    /\ \A t \in TableNames \ SrcPopulated :
          CallCount("Exec", t) = 0 /\ CallCount("Rollback", t) = 0

\* A table was read to its end with two rows rejected for a foreign key
\* and one accepted between them.
C22_Witness ==
    \E t \in TableNames :
        /\ results[t] = << ErrForeignKey, Nil, ErrForeignKey >>
        /\ CallCount("Rollback", t) = 2
        /\ CallCount("Begin", t) = 3
        /\ Finished(t)

-----------------------------------------------------------------------------
(* The order in which seedDB executes the script *)

\* The positions of the separators in the text of the script.
SemiPositions == { k \in 1..Len(sqlFile) : sqlFile[k] = Semi }

\* The position of the i-th separator; 0 before the first, one past the
\* end of the text after the last.
NthSemi(i) ==
    IF i = 0 THEN 0
    ELSE IF i > Cardinality(SemiPositions) THEN Len(sqlFile) + 1
    ELSE CHOOSE k \in SemiPositions :
             Cardinality({ j \in SemiPositions : j <= k }) = i

\* The statements of the script in script order: the i-th is the text
\* between the separators i-1 and i.
StatementCount == Cardinality(SemiPositions) + 1
Statement(i) == SubSeq(sqlFile, NthSemi(i - 1) + 1, NthSemi(i) - 1)

\* A statement of the script was answered with an error.
SeedFailed == \E i \in 1..Len(executed) : executed[i][2] # Nil

\* C23: seedDB executes the statements of the script one at a time in
\* script order inside one transaction: what was executed is the first
\* statements of the script in order, nothing is committed while they are
\* executed, and after the first statement that fails no later one is
\* executed and no commit is issued.
C23_SeedInScriptOrderUntilFailure ==
    seedStatus # "none" =>
        /\ Len(executed) <= StatementCount
        /\ \A i \in 1..Len(executed) : executed[i][1] = Statement(i)
        /\ \A i \in 1..(Len(executed) - 1) : executed[i][2] = Nil
        /\ seedStatus = "open" => (sqliteTx.open /\ sqlite = storeBefore /\ ~SeedFailed)
        /\ seedStatus = "committed" => (Len(executed) = StatementCount /\ ~SeedFailed)
        /\ SeedFailed =>
              /\ seedStatus = "rolledback"
              /\ ~sqliteTx.open
              /\ sqlite = storeBefore
              /\ pc \in {"seed_returned", "exited"}

\* The first of two statements failed; the second, an INSERT, was not
\* executed.
C23_Witness ==
    /\ sqlFile = << Bogus, Semi, InsertUsers >>
    /\ StatementCount = 2
    /\ executed = << << << Bogus >>, ErrSyntax >> >>
    /\ seedStatus = "rolledback"
    /\ pc = "exited"

-----------------------------------------------------------------------------
(* The order in which resetDB clears the tables *)

\* The tables resetDB has issued DELETE for, in the order of the calls.
DeletedInOrder ==
    LET d == SelectSeq(resetLog, LAMBDA e : e[2] = "DELETE")
    IN [i \in 1..Len(d) |-> d[i][1]]

\* C24 as claimed: the tables common to reset and migrate are deleted in
\* the relative order in which migrate processes them.
C24_ResetInCatalogOrder ==
    \A i, j \in 1..Len(DeletedInOrder) :
        ( /\ i < j
          /\ DeletedInOrder[i] \in TableNames
          /\ DeletedInOrder[j] \in TableNames )
        => TableIndex(DeletedInOrder[i]) < TableIndex(DeletedInOrder[j])

\* C24 amended: resetDB goes through a table list of its own, from its
\* first entry on, which is not in the order of migrate: it starts with
\* action, and a reset that runs to its commit deletes users, the first
\* table of migrate, last, after every other table that migrate copies.
C24_ResetInOwnListOrder ==
    /\ DeletedInOrder = SubSeq(resetTables, 1, Len(DeletedInOrder))
    /\ DeletedInOrder # <<>> => DeletedInOrder[1] = "action"
    /\ resetStatus = "committed" =>
          /\ Last(DeletedInOrder) = "users"
          /\ tables[1] = "users"
          /\ \A t \in TableNames \ {"users"} :
                \E i \in 1..(Len(DeletedInOrder) - 1) : DeletedInOrder[i] = t

\* A reset has committed on a store with rows in every table.
C24_Witness ==
    /\ resetStatus = "committed"
    /\ ResetReturned
    /\ \A t \in ResetTableNames : store0.rows[t] = 2
    /\ AllEmpty(sqlite)
    /\ Len(DeletedInOrder) = Len(resetTables)

-----------------------------------------------------------------------------
(* The rows a run of migrate adds *)

\* C25: at every point of a run, and so after it, complete or aborted, the
\* rows the run has added to a destination table are rows of the source
\* table, each added at most once, and none is a row whose insert the
\* destination rejected; the same holds of the rows of the open
\* transaction.
C25_AddedRowsAreAcceptedSourceRows ==
    \A t \in TableNames : \A rows \in { postgres[t], pgTx.data[t] } :
        /\ \A i \in 1..Len(rows) :
              /\ rows[i] \in 1..srcRows[t]
              /\ rows[i] <= Len(results[t])
              /\ results[t][rows[i]] = Nil
        /\ \A i, j \in 1..Len(rows) : rows[i] = rows[j] => i = j

\* A run was aborted after it had committed the two accepted rows of a
\* table whose first row was rejected.
C25_Witness ==
    /\ pc = "exited"
    /\ exitCode = 1
    /\ \E t \in TableNames :
          /\ results[t] = << ErrForeignKey, Nil, Nil >>
          /\ postgres[t] = << 2, 3 >>

-----------------------------------------------------------------------------
(* What a failure leaves of the tables before *)

\* The tables that precede the table of the current iteration.
Preceding == { tables[i] : i \in 1..(tableIdx - 1) }

\* C26: no step of a run, a rollback after a foreign-key failure and a
\* fatal abort included, changes the rows committed for a table that
\* precedes the table being copied.
C26_FailureKeepsEarlierTables ==
    [][\A t \in Preceding : postgres'[t] = postgres[t]]_vars

\* A row of the sixth table was rolled back while the first table held its
\* committed rows.
C26_Witness ==
    /\ postgres[tables[1]] = << 1, 2 >>
    /\ tableIdx = 6
    /\ results[tables[6]] = << ErrForeignKey >>
    /\ CallCount("Rollback", tables[6]) = 1

-----------------------------------------------------------------------------
(* A source cursor that fails *)

\* The cursor of t stopped with an error before its last row.
CursorFailed(t) == \E i \in 1..Len(txLog) : txLog[i] = << "Next failed", t >>

\* C27: a table is committed and its line printed only after every row of
\* the source table was read; if the cursor stops with an error before the
\* last row, the run aborts as fatal and the table is neither committed
\* nor reported as migrated.
C27_CursorErrorAborts ==
    \A t \in TableNames :
        /\ Finished(t) => Exhausted(t)
        /\ CursorFailed(t) =>
              /\ pc = "exited"
              /\ exitCode = 1
              /\ fatal # <<>>
              /\ ~Committed(t)
              /\ ~Finished(t)

-----------------------------------------------------------------------------
(* db:reset: the seed after the reset *)

\* C28: in db:reset seedDB is started only after resetDB has committed:
\* if the reset rolls back, seedDB is not begun and no statement of the
\* script is executed against the store.
C28_SeedOnlyAfterCommittedReset ==
    Arg(0) = "db:reset" =>
        /\ pc \in {"seed_begin", "seed_loop", "seed_returned"} => resetStatus = "committed"
        /\ seedStatus # "none" => resetStatus = "committed"
        /\ executed # <<>> => resetStatus = "committed"

-----------------------------------------------------------------------------
(* db:reset is not atomic *)

\* C29: db:reset uses two transactions: if the reset commits and a
\* statement of the seed then fails, the store is left as the reset
\* committed it, every reset table empty and none of the rows of the seed
\* in it; the deletions are not undone.
C29_FailedSeedLeavesClearedStore ==
    ( /\ Arg(0) = "db:reset"
      /\ resetStatus = "committed"
      /\ SeedFailed )
    => /\ seedStatus = "rolledback"
       /\ AllEmpty(sqlite)
       /\ sqlite = storeBefore
       /\ ~sqliteTx.open

\* A store with rows in every table was cleared, and the seed failed on
\* its second statement after its first had inserted a row.
C29_Witness ==
    /\ Arg(0) = "db:reset"
    /\ \A t \in ResetTableNames : store0.rows[t] = 2
    /\ resetStatus = "committed"
    /\ Len(executed) = 2
    /\ executed[1] = << << InsertUsers >>, Nil >>
    /\ executed[2][2] # Nil
    /\ AllEmpty(sqlite)
    /\ pc = "exited"

-----------------------------------------------------------------------------
(* The index field of the external filters *)

\* C30: after any sequence of add, remove, move-up and move-down, the
\* index field of every external filter is its position in the list,
\* counted from 0.
C30_IndexIsPosition ==
    \A i \in 1..Len(external) : external[i].index = i - 1

=============================================================================
